---- MODULE Spec2Model ----
(***************************************************************************)
(* Model of the gocat agent's communication layer.                         *)
(*                                                                         *)
(*   - the channel manager of the Agent (AgentCommsChannel, the registry   *)
(*     validatedCommsChannels, the history successfulCommsChannels and its *)
(*     rotation cursor, the attached peer-to-peer receivers);              *)
(*   - agent/agent.go: the beacon decoding (Beacon, processBeacon) and the *)
(*     contact selection with its HTTP default.                            *)
(*                                                                         *)
(* Go strings are TLA+ strings; fmt.Sprintf("%s-%s", p, a) is the          *)
(* concatenation p \o "-" \o a.  Go structs are records and are copied by  *)
(* value wherever the Go code copies them.                                 *)
(***************************************************************************)
EXTENDS Integers, Sequences, FiniteSets, TLC

VARIABLES
    agentComms,                  \* Agent.agentComms: the active AgentCommsChannel
    validatedCommsChannels,      \* Agent.validatedCommsChannels: identifier -> channel
    successfulCommsChannels,     \* Agent.successfulCommsChannels: []AgentCommsChannel
    successFulCommsChannelIndex, \* Agent.successFulCommsChannelIndex: rotation cursor
    tryingSwitchedContact,       \* Agent.tryingSwitchedContact
    localP2pReceivers,           \* Agent.localP2pReceivers: receiver -> its upstream
    profile,                     \* the attributes of the profile negotiation may rewrite
    lastErr,                     \* the error the last channel-manager call returned
    lastCall,                    \* the C2RequirementsMet call that call made, if any
    rotLog,                      \* the C2RequirementsMet calls of the rotations so far
    \* agent/agent.go
    CommunicationChannels,       \* contact.CommunicationChannels: the names registered
    beaconContact,               \* Agent.beaconContact
    heartbeatContact,            \* Agent.heartbeatContact
    setChannelsErr,              \* the error SetCommunicationChannels returned last
    askedContacts,               \* the contacts whose C2RequirementsMet that call asked
    response,                    \* the bytes GetBeaconBytes returned to the last Beacon
    beaconResult,                \* how the last Beacon call ended and what it returned
    \* setCommsChannel statement by statement, beside another goroutine
    pc,                          \* the statement of setCommsChannel to run next, or "idle"
    setting,                     \* the arguments of the setCommsChannel call in progress
    observed                     \* what another goroutine read last, in one look

commsVars == <<agentComms, validatedCommsChannels, successfulCommsChannels,
               successFulCommsChannelIndex, tryingSwitchedContact, localP2pReceivers,
               profile, lastErr, lastCall, rotLog>>

agentVars == <<CommunicationChannels, beaconContact, heartbeatContact, setChannelsErr,
               askedContacts, response, beaconResult>>

stepVars == <<pc, setting, observed>>

vars == <<commsVars, agentVars, stepVars>>

----------------------------------------------------------------------------
(* Bounds and input sets *)

MaxReceivers == 1
MaxRotLog == 7

\* the names the contact package knows, and a name it does not know
RegisteredContacts == {"HTTP", "DNS"}
ContactNames == RegisteredContacts \cup {"FTP"}
Addresses == {"s1", "s2"}
Keys == {"", "k"}

\* the (contact, server) pairs at which the contact is served: elsewhere the
\* contact's requirements are never met
Served == {<<"HTTP", "s1">>, <<"HTTP", "s2">>, <<"DNS", "s1">>}

NilContact == "nil"
NoErr == "nil"
ErrUnknownContact == "unknown contact"
ErrRequirementsNotMet == "Requirements not met for C2 channel"
ErrNoPrevious == "No previous successful channels to try."
ErrMissingC2Name == "C2 config does not contain c2 protocol. Missing key: c2Name"

\* what a contact's C2RequirementsMet may answer as profile modifications:
\* a nil map, or a map that assigns a paw
NilMods == [isNil |-> TRUE, paw |-> ""]
Modifications == {NilMods, [isNil |-> FALSE, paw |-> "p1"]}

----------------------------------------------------------------------------
(* AgentCommsChannel *)

\* the zero value of the struct
ZeroChannel ==
    [address |-> "", c2Protocol |-> "", c2Key |-> "",
     contactObj |-> NilContact, validated |-> FALSE]

\* contact.GetContactByName: the contact registered under the name, or an error
GetContactByName(name) ==
    IF name \in RegisteredContacts
    THEN [contact |-> name, err |-> NoErr]
    ELSE [contact |-> NilContact, err |-> ErrUnknownContact]

AgentCommsChannel_Initialize(address, c2Protocol, c2Key) ==
    LET got == GetContactByName(c2Protocol)
    IN  [channel |-> [address |-> address, c2Protocol |-> c2Protocol, c2Key |-> c2Key,
                      contactObj |-> got.contact, validated |-> FALSE],
         err |-> got.err]

\* the factory dropping the error of Initialize
AgentCommsFactory_IgnoresErr(address, c2Protocol, c2Key) ==
    [channel |-> AgentCommsChannel_Initialize(address, c2Protocol, c2Key).channel,
     err |-> NoErr]

AgentCommsFactory(address, c2Protocol, c2Key) ==
    LET made == AgentCommsChannel_Initialize(address, c2Protocol, c2Key)
    IN  IF made.err # NoErr
        THEN [channel |-> ZeroChannel, err |-> made.err]
        ELSE [channel |-> made.channel, err |-> NoErr]

GetConfig(ch) ==
    [c2Name |-> ch.c2Protocol, c2Key |-> ch.c2Key, address |-> ch.address]

GetIdentifier(ch) == ch.c2Protocol \o "-" \o ch.address

\* Contact.C2RequirementsMet(profile, config) of the contact object contactObj:
\* (valid, mods) is the answer of the server when the contact reaches it
C2RequirementsMet(contactObj, config, valid, mods) ==
    [valid |-> valid /\ <<contactObj, config.address>> \in Served, mods |-> mods]

\* Validate with a value receiver: the verdict is written into a copy that is lost
Validate_ValueReceiver(ch, valid, mods) ==
    IF ch.contactObj = NilContact
    THEN [channel |-> ch, valid |-> FALSE, mods |-> NilMods, called |-> FALSE]
    ELSE LET met == C2RequirementsMet(ch.contactObj, GetConfig(ch), valid, mods)
         IN  [channel |-> ch, valid |-> met.valid, mods |-> met.mods, called |-> TRUE]

\* Validate on the caller's copy ch.  called tells whether the contact was asked.
Validate(ch, valid, mods) ==
    IF ch.contactObj = NilContact
    THEN [channel |-> ch, valid |-> FALSE, mods |-> NilMods, called |-> FALSE]
    ELSE LET met == C2RequirementsMet(ch.contactObj, GetConfig(ch), valid, mods)
         IN  [channel |-> [ch EXCEPT !.validated = met.valid], valid |-> met.valid,
              mods |-> met.mods, called |-> TRUE]

----------------------------------------------------------------------------
(* Agent: the channel manager *)

NoCall == [called |-> FALSE, c2Name |-> "", c2Key |-> "", address |-> "", valid |-> FALSE]

\* the record of one C2RequirementsMet(profile, config) call and its verdict
CallOf(config, valid) ==
    [called |-> TRUE, c2Name |-> config.c2Name, c2Key |-> config.c2Key,
     address |-> config.address, valid |-> valid]

\* Agent.modifyAgentConfiguration: the attributes the contact assigned overwrite
\* the profile's
modifyAgentConfiguration(mods) == [profile EXCEPT !.paw = mods.paw]

\* the channel stored under its protocol alone
addValidatedCommsChannel_KeyedByProtocol(commsChannel) ==
    IF commsChannel.validated
    THEN (commsChannel.c2Protocol :> commsChannel) @@ validatedCommsChannels
    ELSE validatedCommsChannels

\* the registry after addValidatedCommsChannel(commsChannel)
addValidatedCommsChannel(commsChannel) ==
    IF commsChannel.validated
    THEN (GetIdentifier(commsChannel) :> commsChannel) @@ validatedCommsChannels
    ELSE validatedCommsChannels

\* the loop body without its UpdateUpstreamServer call
UpdatedReceivers_ContactOnly(commsChannel) ==
    [r \in DOMAIN localP2pReceivers |->
        [upstreamComs |-> commsChannel.contactObj,
         upstreamServer |-> localP2pReceivers[r].upstreamServer]]

\* the upstream every attached receiver holds after UpdateUpstreamComs and
\* UpdateUpstreamServer
UpdatedReceivers(commsChannel) ==
    [r \in DOMAIN localP2pReceivers |->
        [upstreamComs |-> commsChannel.contactObj, upstreamServer |-> commsChannel.address]]

GetCommunicationChannel(server, c2Protocol, c2Key) ==
    LET commsChannelIdentifier == c2Protocol \o "-" \o server
    IN  IF commsChannelIdentifier \in DOMAIN validatedCommsChannels
        THEN [channel |-> validatedCommsChannels[commsChannelIdentifier], err |-> NoErr]
        ELSE AgentCommsFactory(server, c2Protocol, c2Key)

\* the channel made active without the addValidatedCommsChannel call
setCommsChannel_NoRegister(commsChannel, profileModifications) ==
    /\ UNCHANGED validatedCommsChannels
    /\ profile' = IF ~profileModifications.isNil
                  THEN modifyAgentConfiguration(profileModifications)
                  ELSE profile
    /\ agentComms' = commsChannel
    /\ localP2pReceivers' = UpdatedReceivers(commsChannel)

setCommsChannel(commsChannel, profileModifications) ==
    /\ validatedCommsChannels' = addValidatedCommsChannel(commsChannel)
    /\ profile' = IF ~profileModifications.isNil
                  THEN modifyAgentConfiguration(profileModifications)
                  ELSE profile
    /\ agentComms' = commsChannel
    /\ localP2pReceivers' = UpdatedReceivers(commsChannel)

RequirementsNotMet(commsChannel) ==
    ErrRequirementsNotMet \o " " \o commsChannel.c2Protocol
        \o " for server " \o commsChannel.address

\* the channel set before the verdict is looked at
validateAndSetCommsChannelObj_SetsFirst(commsChannel, valid, mods) ==
    LET v == Validate(commsChannel, valid, mods)
    IN  /\ lastCall' = IF v.called THEN CallOf(GetConfig(commsChannel), v.valid) ELSE NoCall
        /\ setCommsChannel(v.channel, v.mods)
        /\ lastErr' = IF v.valid THEN NoErr ELSE RequirementsNotMet(v.channel)

\* commsChannel is the callee's own copy: Validate writes the verdict into the copy
validateAndSetCommsChannelObj(commsChannel, valid, mods) ==
    LET v == Validate(commsChannel, valid, mods)
    IN  /\ lastCall' = IF v.called THEN CallOf(GetConfig(commsChannel), v.valid) ELSE NoCall
        /\ IF v.valid
           THEN /\ setCommsChannel(v.channel, v.mods)
                /\ lastErr' = NoErr
           ELSE /\ UNCHANGED <<validatedCommsChannels, profile, agentComms, localP2pReceivers>>
                /\ lastErr' = RequirementsNotMet(v.channel)

ValidateAndSetCommsChannel(server, c2Protocol, c2Key, valid, mods) ==
    LET got == GetCommunicationChannel(server, c2Protocol, c2Key)
    IN  IF got.err # NoErr
        THEN /\ lastErr' = got.err
             /\ lastCall' = NoCall
             /\ UNCHANGED <<validatedCommsChannels, profile, agentComms, localP2pReceivers>>
        ELSE validateAndSetCommsChannelObj(got.channel, valid, mods)

\* a config without c2Name taken as a request for the HTTP contact
setInitialCommsChannel_DefaultsToHTTP(server, c2Config, valid, mods) ==
    LET c2Protocol == IF "c2Name" \in DOMAIN c2Config THEN c2Config["c2Name"] ELSE "HTTP"
        c2Key == IF "c2Key" \in DOMAIN c2Config THEN c2Config["c2Key"] ELSE ""
    IN  ValidateAndSetCommsChannel(server, c2Protocol, c2Key, valid, mods)

\* c2Config is a map[string]string: a function on the keys it holds
setInitialCommsChannel(server, c2Config, valid, mods) ==
    IF "c2Name" \notin DOMAIN c2Config
    THEN /\ lastErr' = ErrMissingC2Name
         /\ lastCall' = NoCall
         /\ UNCHANGED <<validatedCommsChannels, profile, agentComms, localP2pReceivers>>
    ELSE LET c2Key == IF "c2Key" \in DOMAIN c2Config THEN c2Config["c2Key"] ELSE ""
         IN  ValidateAndSetCommsChannel(server, c2Config["c2Name"], c2Key, valid, mods)

SwitchC2Contact(newContactName, newKey, valid, mods) ==
    LET keyToUse == IF Len(newKey) > 0 THEN newKey ELSE agentComms.c2Key
    IN  ValidateAndSetCommsChannel(agentComms.address, newContactName, keyToUse, valid, mods)

\* the cursor advanced only when the channel tried was accepted
switchToPreviousSuccessfulCommsChannel_AdvancesOnSuccess(valid, mods) ==
    LET numSuccessfulChannels == Len(successfulCommsChannels)
    IN  IF numSuccessfulChannels = 0
        THEN /\ lastErr' = ErrNoPrevious
             /\ lastCall' = NoCall
             /\ UNCHANGED <<successFulCommsChannelIndex, validatedCommsChannels, profile,
                            agentComms, localP2pReceivers>>
        ELSE LET toTry == successfulCommsChannels[successFulCommsChannelIndex + 1]
             IN  /\ validateAndSetCommsChannelObj(toTry, valid, mods)
                 /\ successFulCommsChannelIndex' =
                        IF lastErr' = NoErr
                        THEN (successFulCommsChannelIndex + 1) % numSuccessfulChannels
                        ELSE successFulCommsChannelIndex

\* with an empty history the active channel is negotiated again
switchToPreviousSuccessfulCommsChannel_RetriesActive(valid, mods) ==
    LET numSuccessfulChannels == Len(successfulCommsChannels)
    IN  IF numSuccessfulChannels = 0
        THEN /\ UNCHANGED successFulCommsChannelIndex
             /\ validateAndSetCommsChannelObj(agentComms, valid, mods)
        ELSE LET toTry == successfulCommsChannels[successFulCommsChannelIndex + 1]
             IN  /\ successFulCommsChannelIndex' =
                        (successFulCommsChannelIndex + 1) % numSuccessfulChannels
                 /\ validateAndSetCommsChannelObj(toTry, valid, mods)

\* the cursor advanced, the first entry of the history tried every time
switchToPreviousSuccessfulCommsChannel_TriesFirst(valid, mods) ==
    LET numSuccessfulChannels == Len(successfulCommsChannels)
    IN  IF numSuccessfulChannels = 0
        THEN /\ lastErr' = ErrNoPrevious
             /\ lastCall' = NoCall
             /\ UNCHANGED <<successFulCommsChannelIndex, validatedCommsChannels, profile,
                            agentComms, localP2pReceivers>>
        ELSE LET toTry == successfulCommsChannels[1]
             IN  /\ successFulCommsChannelIndex' =
                        (successFulCommsChannelIndex + 1) % numSuccessfulChannels
                 /\ validateAndSetCommsChannelObj(toTry, valid, mods)

\* the cursor advanced without the modulo
switchToPreviousSuccessfulCommsChannel_NoModulo(valid, mods) ==
    LET numSuccessfulChannels == Len(successfulCommsChannels)
    IN  IF numSuccessfulChannels = 0
        THEN /\ lastErr' = ErrNoPrevious
             /\ lastCall' = NoCall
             /\ UNCHANGED <<successFulCommsChannelIndex, validatedCommsChannels, profile,
                            agentComms, localP2pReceivers>>
        ELSE LET toTry ==
                    successfulCommsChannels[(successFulCommsChannelIndex
                                                % numSuccessfulChannels) + 1]
             IN  /\ successFulCommsChannelIndex' = successFulCommsChannelIndex + 1
                 /\ validateAndSetCommsChannelObj(toTry, valid, mods)

switchToPreviousSuccessfulCommsChannel(valid, mods) ==
    LET numSuccessfulChannels == Len(successfulCommsChannels)
    IN  IF numSuccessfulChannels = 0
        THEN /\ lastErr' = ErrNoPrevious
             /\ lastCall' = NoCall
             /\ UNCHANGED <<successFulCommsChannelIndex, validatedCommsChannels, profile,
                            agentComms, localP2pReceivers>>
        ELSE LET toTry == successfulCommsChannels[successFulCommsChannelIndex + 1]
             IN  /\ successFulCommsChannelIndex' =
                        (successFulCommsChannelIndex + 1) % numSuccessfulChannels
                 /\ validateAndSetCommsChannelObj(toTry, valid, mods)

\* the append without the search for the identifier
UpdateSuccessfulContacts_NoSearch ==
    IF tryingSwitchedContact
    THEN /\ successfulCommsChannels' = Append(successfulCommsChannels, agentComms)
         /\ tryingSwitchedContact' = FALSE
    ELSE UNCHANGED <<successfulCommsChannels, tryingSwitchedContact>>

\* the search and the append without the test of tryingSwitchedContact
UpdateSuccessfulContacts_NoFlagTest ==
    LET identifier == agentComms.c2Protocol \o "-" \o agentComms.address
    IN  IF \E i \in 1..Len(successfulCommsChannels) :
               GetIdentifier(successfulCommsChannels[i]) = identifier
        THEN UNCHANGED <<successfulCommsChannels, tryingSwitchedContact>>
        ELSE /\ successfulCommsChannels' = Append(successfulCommsChannels, agentComms)
             /\ tryingSwitchedContact' = FALSE

UpdateSuccessfulContacts ==
    IF tryingSwitchedContact
    THEN LET identifier == agentComms.c2Protocol \o "-" \o agentComms.address
         IN  IF \E i \in 1..Len(successfulCommsChannels) :
                    GetIdentifier(successfulCommsChannels[i]) = identifier
             THEN UNCHANGED <<successfulCommsChannels, tryingSwitchedContact>>
             ELSE /\ successfulCommsChannels' = Append(successfulCommsChannels, agentComms)
                  /\ tryingSwitchedContact' = FALSE
    ELSE UNCHANGED <<successfulCommsChannels, tryingSwitchedContact>>

----------------------------------------------------------------------------
(* agent/agent.go: the beacon *)

\* JSON values as encoding/json decodes them into interface{}: a float64 (kept in
\* tenths), a string, or no value under the key
Absent == [kind |-> "absent", text |-> "", num |-> 0]
JNumber(tenths) == [kind |-> "float64", text |-> "", num |-> tenths]
JString(text) == [kind |-> "string", text |-> text, num |-> 0]

\* the texts an instructions string may carry, and those of them that are JSON
InstructionTexts == {"[]", "[{}]", "["}
JSONTexts == {"[]", "[{}]"}

\* the bytes a contact may hand back: no JSON at all, JSON that is no object, or an
\* object with any of its three fields missing or of another type
NoBytes == [json |-> "nil", instructions |-> Absent, sleep |-> Absent, watchdog |-> Absent]
InstructionsFields == {Absent, JNumber(10)} \cup {JString(t) : t \in InstructionTexts}
NumberFields == {Absent, JString("60"), JNumber(600), JNumber(15)}
BeaconBytes ==
    { [json |-> j, instructions |-> Absent, sleep |-> Absent, watchdog |-> Absent] :
        j \in {"garbage", "null", "array"} }
    \cup
    { [json |-> "object", instructions |-> i, sleep |-> sl, watchdog |-> w] :
        i \in InstructionsFields, sl \in NumberFields, w \in NumberFields }

\* a nil map[string]interface{}: reading any key of it gives no value
NilBeacon == [isNil |-> TRUE, instructions |-> Absent, sleep |-> Absent, watchdog |-> Absent]

Returned(beacon) == [outcome |-> "returned", beacon |-> beacon]
Panicked == [outcome |-> "panic", beacon |-> NilBeacon]

\* json.Unmarshal(data, &beacon) into a map: a syntax error or a value that is no
\* object is an error and leaves the map nil; null is no error and leaves it nil
UnmarshalBeacon(data) ==
    CASE data.json = "object" ->
            [err |-> FALSE,
             beacon |-> [isNil |-> FALSE, instructions |-> data.instructions,
                         sleep |-> data.sleep, watchdog |-> data.watchdog]]
      [] data.json = "null" -> [err |-> FALSE, beacon |-> NilBeacon]
      [] OTHER -> [err |-> TRUE, beacon |-> NilBeacon]

\* json.Unmarshal([]byte(text), &commands) into an interface{}: the list decoded,
\* kept by its length
UnmarshalCommands(text) ==
    CASE text = "[]" -> [err |-> FALSE, commands |-> [kind |-> "list", text |-> "", num |-> 0]]
      [] text = "[{}]" -> [err |-> FALSE, commands |-> [kind |-> "list", text |-> "", num |-> 1]]
      [] OTHER -> [err |-> TRUE, commands |-> Absent]

\* int(f) of a float64 kept in tenths: truncation towards zero
GoInt(tenths) ==
    [kind |-> "int", text |-> "",
     num |-> IF tenths >= 0 THEN tenths \div 10 ELSE -((-tenths) \div 10)]

\* x.(string) and x.(float64) without the comma-ok form panic on any other value
processBeacon(data) ==
    LET u == UnmarshalBeacon(data)
    IN  IF u.err
        THEN Returned(u.beacon)
        ELSE IF u.beacon.instructions.kind # "string"
        THEN Panicked
        ELSE LET c == UnmarshalCommands(u.beacon.instructions.text)
             IN  IF c.err
                 THEN Returned(u.beacon)
                 ELSE IF u.beacon.sleep.kind # "float64"
                 THEN Panicked
                 ELSE IF u.beacon.watchdog.kind # "float64"
                 THEN Panicked
                 ELSE Returned([isNil |-> FALSE,
                                instructions |-> c.commands,
                                sleep |-> GoInt(u.beacon.sleep.num),
                                watchdog |-> GoInt(u.beacon.watchdog.num)])

\* Agent.Beacon, data being what beaconContact.GetBeaconBytes(profile) returned
Beacon(data) ==
    IF data # NoBytes
    THEN processBeacon(data)
    ELSE Returned(NilBeacon)

----------------------------------------------------------------------------
(* agent/agent.go: the choice of the contact *)

ErrNoChannels == "No possible communication channels found."
ErrDefaultNotMet == "Default HTTP C2 channel requirements not met."
ErrDefaultNotAvailable == "Default HTTP C2 channel not available."

\* the default taken without asking for its requirements
SetDefaultCommunicationChannel_NoRequirements(c2Config, metDefault, asked) ==
    IF "HTTP" \in CommunicationChannels
    THEN /\ askedContacts' = asked
         /\ beaconContact' = "HTTP"
         /\ heartbeatContact' = "HTTP"
         /\ setChannelsErr' = NoErr
    ELSE /\ askedContacts' = asked
         /\ setChannelsErr' = ErrDefaultNotAvailable
         /\ UNCHANGED <<beaconContact, heartbeatContact>>

\* metDefault is the answer of the HTTP contact's C2RequirementsMet, asked the
\* contacts the caller has asked before it
SetDefaultCommunicationChannel(c2Config, metDefault, asked) ==
    IF "HTTP" \in CommunicationChannels
    THEN /\ askedContacts' = Append(asked, "HTTP")
         /\ IF metDefault
            THEN /\ beaconContact' = "HTTP"
                 /\ heartbeatContact' = "HTTP"
                 /\ setChannelsErr' = NoErr
            ELSE /\ setChannelsErr' = ErrDefaultNotMet
                 /\ UNCHANGED <<beaconContact, heartbeatContact>>
    ELSE /\ askedContacts' = asked
         /\ setChannelsErr' = ErrDefaultNotAvailable
         /\ UNCHANGED <<beaconContact, heartbeatContact>>

\* metRequested is the answer of the requested contact's C2RequirementsMet
SetCommunicationChannels(c2Config, metRequested, metDefault) ==
    IF Cardinality(CommunicationChannels) > 0
    THEN IF "c2Name" \in DOMAIN c2Config
         THEN IF c2Config["c2Name"] \in CommunicationChannels
              THEN IF metRequested
                   THEN /\ askedContacts' = <<c2Config["c2Name"]>>
                        /\ beaconContact' = c2Config["c2Name"]
                        /\ heartbeatContact' = c2Config["c2Name"]
                        /\ setChannelsErr' = NoErr
                   ELSE SetDefaultCommunicationChannel(c2Config, metDefault,
                                                       <<c2Config["c2Name"]>>)
              ELSE SetDefaultCommunicationChannel(c2Config, metDefault, <<>>)
         ELSE SetDefaultCommunicationChannel(c2Config, metDefault, <<>>)
    ELSE /\ setChannelsErr' = ErrNoChannels
         /\ askedContacts' = <<>>
         /\ UNCHANGED <<beaconContact, heartbeatContact>>

----------------------------------------------------------------------------
(* The control loop's calls into the channel manager *)

\* Initialize has bound the agent to a channel: the control loop runs from then on
Activated == agentComms.contactObj # NilContact

\* the c2Config maps the caller may pass
C2Configs ==
    UNION { [D -> ContactNames \cup Keys] : D \in SUBSET {"c2Name", "c2Key"} }

ValidC2Configs ==
    { c \in C2Configs :
        /\ ("c2Name" \in DOMAIN c => c["c2Name"] \in ContactNames)
        /\ ("c2Key" \in DOMAIN c => c["c2Key"] \in Keys) }

CallSetInitialCommsChannel ==
    /\ UNCHANGED <<agentVars, stepVars>>
    /\ ~Activated
    /\ \E server \in Addresses, c2Config \in ValidC2Configs,
          valid \in BOOLEAN, mods \in Modifications :
            setInitialCommsChannel(server, c2Config, valid, mods)
    /\ UNCHANGED <<successfulCommsChannels, successFulCommsChannelIndex,
                   tryingSwitchedContact, rotLog>>

CallValidateAndSetCommsChannel ==
    /\ UNCHANGED <<agentVars, stepVars>>
    /\ Activated
    /\ \E server \in Addresses, c2Protocol \in ContactNames, c2Key \in Keys,
          valid \in BOOLEAN, mods \in Modifications :
            ValidateAndSetCommsChannel(server, c2Protocol, c2Key, valid, mods)
    /\ UNCHANGED <<successfulCommsChannels, successFulCommsChannelIndex,
                   tryingSwitchedContact, rotLog>>

CallSwitchC2Contact ==
    /\ UNCHANGED <<agentVars, stepVars>>
    /\ Activated
    /\ \E newContactName \in ContactNames, newKey \in Keys,
          valid \in BOOLEAN, mods \in Modifications :
            SwitchC2Contact(newContactName, newKey, valid, mods)
    /\ UNCHANGED <<successfulCommsChannels, successFulCommsChannelIndex,
                   tryingSwitchedContact, rotLog>>

CallSwitchToPrevious ==
    /\ UNCHANGED <<agentVars, stepVars>>
    /\ Activated
    /\ \E valid \in BOOLEAN, mods \in Modifications :
            switchToPreviousSuccessfulCommsChannel(valid, mods)
    /\ UNCHANGED <<successfulCommsChannels, tryingSwitchedContact, rotLog>>

CallUpdateSuccessfulContacts ==
    /\ UNCHANGED <<agentVars, stepVars>>
    /\ Activated
    /\ UpdateSuccessfulContacts
    /\ lastErr' = NoErr
    /\ lastCall' = NoCall
    /\ UNCHANGED <<agentComms, validatedCommsChannels, successFulCommsChannelIndex,
                   localP2pReceivers, profile, rotLog>>

\* the loop marks that it is trying a contact it switched to
MarkSwitchedContact ==
    /\ UNCHANGED <<agentVars, stepVars>>
    /\ Activated
    /\ tryingSwitchedContact' = TRUE
    /\ lastErr' = NoErr
    /\ lastCall' = NoCall
    /\ UNCHANGED <<agentComms, validatedCommsChannels, successfulCommsChannels,
                   successFulCommsChannelIndex, localP2pReceivers, profile, rotLog>>

NoUpstream == [upstreamComs |-> NilContact, upstreamServer |-> ""]

\* no setCommsChannel call in progress
NoFrame ==
    [commsChannel |-> ZeroChannel, profileModifications |-> NilMods, receiver |-> 0,
     before |-> [agentComms |-> ZeroChannel, profile |-> [paw |-> ""]]]

NothingObserved ==
    [inCall |-> FALSE, agentComms |-> ZeroChannel, profile |-> [paw |-> ""],
     receivers |-> <<>>, frame |-> NoFrame]

StepsIdle ==
    /\ pc = "idle"
    /\ setting = NoFrame
    /\ observed = NothingObserved

CommsInit ==
    /\ StepsIdle
    /\ agentComms = ZeroChannel
    /\ validatedCommsChannels = [i \in {} |-> ZeroChannel]
    /\ successfulCommsChannels = <<>>
    /\ successFulCommsChannelIndex = 0
    /\ tryingSwitchedContact = FALSE
    /\ localP2pReceivers = [r \in 1..MaxReceivers |-> NoUpstream]
    /\ profile = [paw |-> ""]
    /\ lastErr = NoErr
    /\ lastCall = NoCall
    /\ rotLog = <<>>

\* the agent.go state before Initialize, with no contact registered
AgentIdle ==
    /\ CommunicationChannels = {}
    /\ beaconContact = NilContact
    /\ heartbeatContact = NilContact
    /\ setChannelsErr = NoErr
    /\ askedContacts = <<>>
    /\ response = NoBytes
    /\ beaconResult = Returned(NilBeacon)

Init == CommsInit /\ AgentIdle

Next ==
    \/ CallSetInitialCommsChannel
    \/ CallSwitchC2Contact
    \/ CallValidateAndSetCommsChannel
    \/ CallSwitchToPrevious
    \/ CallUpdateSuccessfulContacts
    \/ MarkSwitchedContact

Spec == Init /\ [][Next]_vars

----------------------------------------------------------------------------
(* Rotation alone: the history is fixed, the cursor is at 0, and the loop only
   rotates.  rotLog keeps the identifier each rotation had negotiated. *)

\* a channel that was validated and set
ValidatedChannel(c2Protocol, address, c2Key) ==
    [address |-> address, c2Protocol |-> c2Protocol, c2Key |-> c2Key,
     contactObj |-> c2Protocol, validated |-> TRUE]

ServedChannels == { ValidatedChannel(p[1], p[2], k) : p \in Served, k \in Keys }

\* the histories UpdateSuccessfulContacts builds: no identifier twice
Histories ==
    UNION { { h \in [1..n -> ServedChannels] :
                \A i, j \in 1..n : i # j => GetIdentifier(h[i]) # GetIdentifier(h[j]) } :
            n \in 1..Cardinality(Served) }

InitRotation ==
    /\ \E h \in Histories :
        /\ successfulCommsChannels = h
        /\ validatedCommsChannels =
                [id \in {GetIdentifier(h[i]) : i \in 1..Len(h)} |->
                    CHOOSE c \in {h[i] : i \in 1..Len(h)} : GetIdentifier(c) = id]
        /\ agentComms = h[Len(h)]
        /\ localP2pReceivers =
                [r \in 1..MaxReceivers |->
                    [upstreamComs |-> h[Len(h)].contactObj,
                     upstreamServer |-> h[Len(h)].address]]
    /\ successFulCommsChannelIndex = 0
    /\ tryingSwitchedContact = FALSE
    /\ profile = [paw |-> ""]
    /\ lastErr = NoErr
    /\ lastCall = NoCall
    /\ rotLog = <<>>
    /\ StepsIdle
    /\ AgentIdle

RotateLogged ==
    /\ Len(rotLog) < MaxRotLog
    /\ \E valid \in BOOLEAN, mods \in Modifications :
            switchToPreviousSuccessfulCommsChannel(valid, mods)
    /\ rotLog' = Append(rotLog, lastCall'.c2Name \o "-" \o lastCall'.address)
    /\ UNCHANGED <<successfulCommsChannels, tryingSwitchedContact>>
    /\ UNCHANGED <<agentVars, stepVars>>

NextRotation == RotateLogged

SpecRotation == InitRotation /\ [][NextRotation]_vars

----------------------------------------------------------------------------
(* setCommsChannel statement by statement.  The method takes no lock and swaps no
   pointer: each of its statements is a step of the control loop's goroutine, and
   another goroutine (a peer-to-peer receiver, a reader of the profile) may look
   at the agent between any two of them. *)

\* the call a.setCommsChannel(commsChannel, profileModifications) of line 161
FrameOf(commsChannel, profileModifications) ==
    [commsChannel |-> commsChannel, profileModifications |-> profileModifications,
     receiver |-> 0, before |-> [agentComms |-> agentComms, profile |-> profile]]

\* ValidateAndSetCommsChannel up to the call of setCommsChannel
EnterSetCommsChannel ==
    /\ pc = "idle"
    /\ \E server \in Addresses, c2Protocol \in ContactNames, c2Key \in Keys,
          valid \in BOOLEAN, mods \in Modifications :
          LET got == GetCommunicationChannel(server, c2Protocol, c2Key)
              v == Validate(got.channel, valid, mods)
          IN  IF got.err # NoErr
              THEN /\ lastErr' = got.err
                   /\ lastCall' = NoCall
                   /\ UNCHANGED <<pc, setting>>
              ELSE /\ lastCall' = IF v.called
                                  THEN CallOf(GetConfig(got.channel), v.valid)
                                  ELSE NoCall
                   /\ IF v.valid
                      THEN /\ lastErr' = NoErr
                           /\ setting' = FrameOf(v.channel, v.mods)
                           /\ pc' = "addValidatedCommsChannel"
                      ELSE /\ lastErr' = RequirementsNotMet(v.channel)
                           /\ UNCHANGED <<pc, setting>>
    /\ UNCHANGED <<agentComms, validatedCommsChannels, successfulCommsChannels,
                   successFulCommsChannelIndex, tryingSwitchedContact, localP2pReceivers,
                   profile, rotLog, observed>>
    /\ UNCHANGED agentVars

\* a.addValidatedCommsChannel(commsChannel)
StepAddValidatedCommsChannel ==
    /\ pc = "addValidatedCommsChannel"
    /\ validatedCommsChannels' = addValidatedCommsChannel(setting.commsChannel)
    /\ pc' = "modifyAgentConfiguration"
    /\ UNCHANGED <<agentComms, successfulCommsChannels, successFulCommsChannelIndex,
                   tryingSwitchedContact, localP2pReceivers, profile, lastErr, lastCall,
                   rotLog, setting, observed>>
    /\ UNCHANGED agentVars

\* if profileModifications != nil { a.modifyAgentConfiguration(profileModifications) }
StepModifyAgentConfiguration ==
    /\ pc = "modifyAgentConfiguration"
    /\ profile' = IF ~setting.profileModifications.isNil
                  THEN modifyAgentConfiguration(setting.profileModifications)
                  ELSE profile
    /\ pc' = "agentComms"
    /\ UNCHANGED <<agentComms, validatedCommsChannels, successfulCommsChannels,
                   successFulCommsChannelIndex, tryingSwitchedContact, localP2pReceivers,
                   lastErr, lastCall, rotLog, setting, observed>>
    /\ UNCHANGED agentVars

\* a.agentComms = commsChannel, then the loop over the receivers if there are any
StepAssignAgentComms ==
    /\ pc = "agentComms"
    /\ agentComms' = setting.commsChannel
    /\ IF DOMAIN localP2pReceivers # {}
       THEN /\ pc' = "UpdateUpstreamComs"
            /\ setting' = [setting EXCEPT !.receiver = 1]
       ELSE /\ pc' = "idle"
            /\ setting' = NoFrame
    /\ UNCHANGED <<validatedCommsChannels, successfulCommsChannels,
                   successFulCommsChannelIndex, tryingSwitchedContact, localP2pReceivers,
                   profile, lastErr, lastCall, rotLog, observed>>
    /\ UNCHANGED agentVars

\* receiver.UpdateUpstreamComs(commsChannel.GetContact())
StepUpdateUpstreamComs ==
    /\ pc = "UpdateUpstreamComs"
    /\ localP2pReceivers' =
            [localP2pReceivers EXCEPT
                ![setting.receiver].upstreamComs = setting.commsChannel.contactObj]
    /\ pc' = "UpdateUpstreamServer"
    /\ UNCHANGED <<agentComms, validatedCommsChannels, successfulCommsChannels,
                   successFulCommsChannelIndex, tryingSwitchedContact, profile, lastErr,
                   lastCall, rotLog, setting, observed>>
    /\ UNCHANGED agentVars

\* receiver.UpdateUpstreamServer(commsChannel.GetAddress()), then the next receiver
\* or the return
StepUpdateUpstreamServer ==
    /\ pc = "UpdateUpstreamServer"
    /\ localP2pReceivers' =
            [localP2pReceivers EXCEPT
                ![setting.receiver].upstreamServer = setting.commsChannel.address]
    /\ IF setting.receiver < Len(localP2pReceivers)
       THEN /\ pc' = "UpdateUpstreamComs"
            /\ setting' = [setting EXCEPT !.receiver = @ + 1]
       ELSE /\ pc' = "idle"
            /\ setting' = NoFrame
    /\ UNCHANGED <<agentComms, validatedCommsChannels, successfulCommsChannels,
                   successFulCommsChannelIndex, tryingSwitchedContact, profile, lastErr,
                   lastCall, rotLog, observed>>
    /\ UNCHANGED agentVars

\* another goroutine reads the active channel, the profile and the upstream of the
\* receivers
Observe ==
    /\ observed' = [inCall |-> pc # "idle", agentComms |-> agentComms, profile |-> profile,
                    receivers |-> localP2pReceivers, frame |-> setting]
    /\ UNCHANGED <<commsVars, agentVars, pc, setting>>

\* the agent bound to HTTP at the first server, its receivers following it
InitSteps ==
    /\ agentComms = ValidatedChannel("HTTP", "s1", "")
    /\ validatedCommsChannels = ("HTTP-s1" :> ValidatedChannel("HTTP", "s1", ""))
    /\ successfulCommsChannels = <<>>
    /\ successFulCommsChannelIndex = 0
    /\ tryingSwitchedContact = FALSE
    /\ localP2pReceivers =
            [r \in 1..MaxReceivers |-> [upstreamComs |-> "HTTP", upstreamServer |-> "s1"]]
    /\ profile = [paw |-> ""]
    /\ lastErr = NoErr
    /\ lastCall = NoCall
    /\ rotLog = <<>>
    /\ StepsIdle
    /\ AgentIdle

NextSteps ==
    \/ EnterSetCommsChannel
    \/ StepAddValidatedCommsChannel
    \/ StepModifyAgentConfiguration
    \/ StepAssignAgentComms
    \/ StepUpdateUpstreamComs
    \/ StepUpdateUpstreamServer
    \/ Observe

SpecSteps == InitSteps /\ [][NextSteps]_vars

----------------------------------------------------------------------------
(* Failover: the control loop keeps rotating while it also activates channels and
   records successes, so the history grows between rotations.  rotLog keeps the
   identifier the latest rotation negotiated. *)

RotateTracked ==
    /\ Activated
    /\ \E valid \in BOOLEAN, mods \in Modifications :
            switchToPreviousSuccessfulCommsChannel(valid, mods)
    /\ rotLog' = IF lastCall'.called
                 THEN <<lastCall'.c2Name \o "-" \o lastCall'.address>>
                 ELSE <<>>
    /\ UNCHANGED <<successfulCommsChannels, tryingSwitchedContact>>
    /\ UNCHANGED <<agentVars, stepVars>>

\* the loop activates a channel of a registered contact, without a key
ActivateKeyless ==
    /\ UNCHANGED <<agentVars, stepVars>>
    /\ Activated
    /\ \E server \in Addresses, c2Protocol \in RegisteredContacts,
          valid \in BOOLEAN, mods \in Modifications :
            ValidateAndSetCommsChannel(server, c2Protocol, "", valid, mods)
    /\ UNCHANGED <<successfulCommsChannels, successFulCommsChannelIndex,
                   tryingSwitchedContact, rotLog>>

NextFailover ==
    \/ ActivateKeyless
    \/ RotateTracked
    \/ CallUpdateSuccessfulContacts
    \/ MarkSwitchedContact

\* the agent bound to HTTP at the first server; the loop rotates again and again
SpecFailover == InitSteps /\ [][NextFailover]_vars /\ WF_vars(RotateTracked)

----------------------------------------------------------------------------
(* The agent of agent/agent.go: Initialize, then beacons *)

CallSetCommunicationChannels ==
    /\ \E c2Config \in ValidC2Configs, metRequested \in BOOLEAN, metDefault \in BOOLEAN :
            SetCommunicationChannels(c2Config, metRequested, metDefault)
    /\ UNCHANGED <<CommunicationChannels, response, beaconResult>>
    /\ UNCHANGED <<commsVars, stepVars>>

CallBeacon ==
    /\ beaconContact # NilContact
    /\ \E data \in BeaconBytes \cup {NoBytes} :
            /\ response' = data
            /\ beaconResult' = Beacon(data)
    /\ UNCHANGED <<CommunicationChannels, beaconContact, heartbeatContact, setChannelsErr,
                   askedContacts>>
    /\ UNCHANGED <<commsVars, stepVars>>

\* the contacts the build registered
AgentStart ==
    /\ CommunicationChannels \in SUBSET RegisteredContacts
    /\ beaconContact = NilContact
    /\ heartbeatContact = NilContact
    /\ setChannelsErr = NoErr
    /\ askedContacts = <<>>
    /\ response = NoBytes
    /\ beaconResult = Returned(NilBeacon)

InitAgent == CommsInit /\ AgentStart

NextAgent ==
    \/ CallSetCommunicationChannels
    \/ CallBeacon

SpecAgent == InitAgent /\ [][NextAgent]_vars

----------------------------------------------------------------------------
(* Properties *)

IdentifierOf(c2Protocol, address) == c2Protocol \o "-" \o address

\* how often an identifier occurs in the history
Occurrences(history, identifier) ==
    Cardinality({ i \in 1..Len(history) : GetIdentifier(history[i]) = identifier })

\* C1: no partial switch.  A step in which the contact was asked and rejected
\* returns the requirements-not-met error for the channel negotiated and leaves the
\* active channel, the profile, the registry and the upstream of every attached
\* receiver as they were.
C1_NoPartialSwitch ==
    [][(lastCall'.called /\ ~lastCall'.valid) =>
          /\ lastErr' = ErrRequirementsNotMet \o " " \o lastCall'.c2Name
                            \o " for server " \o lastCall'.address
          /\ UNCHANGED <<agentComms, profile, validatedCommsChannels, localP2pReceivers>>
      ]_vars

\* a rejected negotiation of another channel than the active one, the active one
\* still validated and the profile holding an assigned paw
C1_Witness ==
    /\ lastCall.called /\ ~lastCall.valid
    /\ lastErr # NoErr
    /\ agentComms.validated
    /\ GetIdentifier(agentComms) # IdentifierOf(lastCall.c2Name, lastCall.address)
    /\ profile.paw = "p1"
    /\ successFulCommsChannelIndex > 0

\* C2: rotation is round-robin.  With the history fixed and the cursor at 0 at the
\* start, the i-th rotation negotiates the channel at position ((i-1) mod n) + 1
\* of the history, whatever the verdicts of the rotations before it.
C2_RoundRobin ==
    \A i \in 1..Len(rotLog) :
        rotLog[i] =
            GetIdentifier(successfulCommsChannels[((i - 1) % Len(successfulCommsChannels)) + 1])

\* the history [A, B, C] rotated through twice and once more, the last attempt
\* rejected and an earlier one accepted
C2_Witness ==
    /\ Len(successfulCommsChannels) = 3
    /\ Len(rotLog) = 7
    /\ lastCall.called /\ ~lastCall.valid
    /\ agentComms # successfulCommsChannels[3]

\* C3: no identifier occurs more than once in successfulCommsChannels.
C3_HistoryDeduplicated ==
    \A i, j \in 1..Len(successfulCommsChannels) :
        i # j => GetIdentifier(successfulCommsChannels[i])
                    # GetIdentifier(successfulCommsChannels[j])

\* the history full, and a further success reported for a channel it holds
C3_Witness ==
    /\ Len(successfulCommsChannels) = 3
    /\ tryingSwitchedContact
    /\ Occurrences(successfulCommsChannels, GetIdentifier(agentComms)) = 1
    /\ lastCall = NoCall

\* C4: UpdateSuccessfulContacts changes nothing when tryingSwitchedContact is
\* false, and when it is true the active channel's identifier is in the history
\* exactly once afterwards; so it stays there exactly once under further calls.
C4_RecordSuccess ==
    [][CallUpdateSuccessfulContacts =>
          IF tryingSwitchedContact
          THEN /\ Occurrences(successfulCommsChannels', GetIdentifier(agentComms)) = 1
               /\ UNCHANGED <<agentComms, validatedCommsChannels, profile,
                              successFulCommsChannelIndex, localP2pReceivers>>
          ELSE UNCHANGED <<agentComms, validatedCommsChannels, profile,
                           successfulCommsChannels, successFulCommsChannelIndex,
                           tryingSwitchedContact, localP2pReceivers>>
      ]_vars

\* after a switch and a recorded success: the flag is down, the history holds the
\* active channel once beside an older one
C4_Witness ==
    /\ Activated
    /\ lastCall = NoCall
    /\ ~tryingSwitchedContact
    /\ Len(successfulCommsChannels) >= 2
    /\ GetIdentifier(successfulCommsChannels[Len(successfulCommsChannels)])
            = GetIdentifier(agentComms)

\* C5: whenever UpdateSuccessfulContacts is called with tryingSwitchedContact set,
\* the flag is cleared when the call returns.
C5_FlagCleared ==
    [][(CallUpdateSuccessfulContacts /\ tryingSwitchedContact) => ~tryingSwitchedContact'
      ]_vars

\* C6: for a registered name t and an address s, a ValidateAndSetCommsChannel(s, t,
\* key) whose negotiation is accepted returns no error, and afterwards the active
\* channel has the identifier t-s and is validated, and the registry holds a
\* validated channel under t-s.
C6_AcceptedIsActiveAndRegistered ==
    [][(lastCall'.called /\ lastCall'.valid) =>
          \A s \in Addresses, t \in RegisteredContacts, key \in Keys, mods \in Modifications :
             ValidateAndSetCommsChannel(s, t, key, TRUE, mods) =>
                /\ lastErr' = NoErr
                /\ GetIdentifier(agentComms') = IdentifierOf(t, s)
                /\ agentComms'.validated
                /\ IdentifierOf(t, s) \in DOMAIN validatedCommsChannels'
                /\ validatedCommsChannels'[IdentifierOf(t, s)].validated
      ]_vars

\* an accepted negotiation of the second contact at the first server, with the
\* first contact registered at both servers
C6_Witness ==
    /\ lastCall.called /\ lastCall.valid
    /\ lastErr = NoErr
    /\ GetIdentifier(agentComms) = "DNS-s1"
    /\ {"HTTP-s1", "HTTP-s2", "DNS-s1"} \subseteq DOMAIN validatedCommsChannels

C8_SwitchKey ==
    [][\A newContactName \in ContactNames, newKey \in Keys,
          valid \in BOOLEAN, mods \in Modifications :
          (SwitchC2Contact(newContactName, newKey, valid, mods) /\ lastCall'.called) =>
             /\ lastCall'.c2Name = newContactName
             /\ lastCall'.address = agentComms.address
             /\ lastCall'.c2Key = IF Len(newKey) > 0 THEN newKey ELSE agentComms.c2Key
      ]_vars

\* C9: once a channel is active, every attached receiver's upstream contact and
\* upstream server are the active channel's.
C9_ReceiversFollow ==
    Activated =>
        \A r \in DOMAIN localP2pReceivers :
            /\ localP2pReceivers[r].upstreamComs = agentComms.contactObj
            /\ localP2pReceivers[r].upstreamServer = agentComms.address

\* a receiver attached, and the active channel set by a later activation than the
\* first: another contact and another server than the one in the history
C9_Witness ==
    /\ DOMAIN localP2pReceivers # {}
    /\ Len(successfulCommsChannels) = 1
    /\ successfulCommsChannels[1].c2Protocol = "DNS"
    /\ agentComms.c2Protocol = "HTTP"
    /\ agentComms.address = "s2"
    /\ lastCall.called /\ lastCall.valid

\* a payload that is not a beacon: no JSON object, or instructions missing, no
\* string or no JSON, or sleep or watchdog missing or no number
Malformed(data) ==
    /\ data # NoBytes
    /\ \/ data.json # "object"
       \/ data.instructions.kind # "string"
       \/ data.instructions.text \notin JSONTexts
       \/ data.sleep.kind # "float64"
       \/ data.watchdog.kind # "float64"

\* C10: for every malformed payload Beacon ends without a panic and returns the
\* dead beacon, the nil map.
C10_MalformedIsDead ==
    Malformed(response) => beaconResult = Returned(NilBeacon)

\* C11: the fallback chain of SetCommunicationChannels.  With no contact registered
\* it returns an error and asks no contact.  Otherwise it takes the requested
\* contact when that is registered and its requirements are met; failing that it
\* takes HTTP when HTTP is registered and its requirements are met; failing that
\* it returns an error and leaves the beacon and heartbeat contacts as they were.
C11_FallbackChain ==
    [][CallSetCommunicationChannels =>
          \A c2Config \in ValidC2Configs, metRequested \in BOOLEAN, metDefault \in BOOLEAN :
             SetCommunicationChannels(c2Config, metRequested, metDefault) =>
                LET requestedIsRegistered ==
                        /\ "c2Name" \in DOMAIN c2Config
                        /\ c2Config["c2Name"] \in CommunicationChannels
                IN  IF CommunicationChannels = {}
                    THEN /\ setChannelsErr' # NoErr
                         /\ askedContacts' = <<>>
                         /\ UNCHANGED <<beaconContact, heartbeatContact>>
                    ELSE IF requestedIsRegistered /\ metRequested
                    THEN /\ setChannelsErr' = NoErr
                         /\ beaconContact' = c2Config["c2Name"]
                         /\ heartbeatContact' = c2Config["c2Name"]
                    ELSE IF "HTTP" \in CommunicationChannels /\ metDefault
                    THEN /\ setChannelsErr' = NoErr
                         /\ beaconContact' = "HTTP"
                         /\ heartbeatContact' = "HTTP"
                    ELSE /\ setChannelsErr' # NoErr
                         /\ UNCHANGED <<beaconContact, heartbeatContact>>
      ]_vars

\* the requested contact refused, then the default refused too, with the contacts
\* of an earlier call still in place
C11_Witness ==
    /\ askedContacts = <<"DNS", "HTTP">>
    /\ setChannelsErr = ErrDefaultNotMet
    /\ beaconContact = "DNS"
    /\ heartbeatContact = "DNS"

ProfileAfter(frame) ==
    IF frame.profileModifications.isNil
    THEN frame.before.profile
    ELSE [frame.before.profile EXCEPT !.paw = frame.profileModifications.paw]

\* C13: activation is atomic for a concurrent reader.  A goroutine that reads the
\* active channel and the profile while a setCommsChannel call that changes both is
\* in progress sees either both as they were before the call or both as the call
\* leaves them: never the modified profile beside the old active channel, nor the
\* new active channel beside the unmodified profile.
C13_ActivationAtomic ==
    (/\ observed.inCall
     /\ observed.frame.before.agentComms # observed.frame.commsChannel
     /\ observed.frame.before.profile # ProfileAfter(observed.frame)) =>
        \/ /\ observed.agentComms = observed.frame.before.agentComms
           /\ observed.profile = observed.frame.before.profile
        \/ /\ observed.agentComms = observed.frame.commsChannel
           /\ observed.profile = ProfileAfter(observed.frame)

\* C18: a receiver running beside the control loop never sees the active channel
\* changed while its upstream is still the old one, and never a mixed upstream:
\* whenever it looks, its upstream contact and upstream server are both those of
\* the active channel.
C18_UpstreamAtomic ==
    \A r \in DOMAIN observed.receivers :
        /\ observed.receivers[r].upstreamComs = observed.agentComms.contactObj
        /\ observed.receivers[r].upstreamServer = observed.agentComms.address

\* C14: switchToPreviousSuccessfulCommsChannel with an empty history returns the
\* no-previous-channels error, asks no contact, and leaves the cursor, the active
\* channel, the registry and the history as they were.
C14_EmptyHistoryRotation ==
    [][(CallSwitchToPrevious /\ Len(successfulCommsChannels) = 0) =>
          /\ lastErr' = ErrNoPrevious
          /\ ~lastCall'.called
          /\ UNCHANGED <<successFulCommsChannelIndex, agentComms, validatedCommsChannels,
                         successfulCommsChannels>>
      ]_vars

\* the error returned to an agent with an active channel, two channels in the
\* registry and none in the history
C14_Witness ==
    /\ lastErr = ErrNoPrevious
    /\ Activated
    /\ Len(successfulCommsChannels) = 0
    /\ Cardinality(DOMAIN validatedCommsChannels) >= 2

\* C16: every entry of the registry is stored under its own identifier and is
\* validated; a channel whose negotiation was rejected is not in it.
C16_RegistryValidated ==
    \A id \in DOMAIN validatedCommsChannels :
        /\ GetIdentifier(validatedCommsChannels[id]) = id
        /\ validatedCommsChannels[id].validated

\* a rejected negotiation of a channel the registry does not hold, the registry
\* holding two others
C16_Witness ==
    /\ lastCall.called /\ ~lastCall.valid
    /\ IdentifierOf(lastCall.c2Name, lastCall.address) \notin DOMAIN validatedCommsChannels
    /\ Cardinality(DOMAIN validatedCommsChannels) >= 2

\* C17: each validation supersedes the verdict held for the identifier.  After a
\* step in which the contact rejected a channel whose identifier is in the
\* registry or in the history, the channel held there under that identifier has
\* validated = false.
C17_VerdictSuperseded ==
    [][(lastCall'.called /\ ~lastCall'.valid) =>
          LET id == IdentifierOf(lastCall'.c2Name, lastCall'.address)
          IN  /\ id \in DOMAIN validatedCommsChannels' =>
                     ~validatedCommsChannels'[id].validated
              /\ \A i \in 1..Len(successfulCommsChannels') :
                     GetIdentifier(successfulCommsChannels'[i]) = id =>
                        ~successfulCommsChannels'[i].validated
      ]_vars

\* C19: once a channel is active, the active channel is validated and the registry
\* holds under the active channel's identifier a channel with its address, its
\* protocol and its key.
C19_ActiveIsRegistered ==
    Activated =>
        /\ agentComms.validated
        /\ GetIdentifier(agentComms) \in DOMAIN validatedCommsChannels
        /\ LET held == validatedCommsChannels[GetIdentifier(agentComms)]
           IN  /\ held.address = agentComms.address
               /\ held.c2Protocol = agentComms.c2Protocol
               /\ held.c2Key = agentComms.c2Key

\* the active channel set by an accepted rotation to an entry of the history with
\* a key, three channels in the registry
C19_Witness ==
    /\ Activated
    /\ lastCall.called /\ lastCall.valid
    /\ successFulCommsChannelIndex > 0
    /\ agentComms = successfulCommsChannels[successFulCommsChannelIndex]
    /\ agentComms.c2Key = "k"
    /\ Cardinality(DOMAIN validatedCommsChannels) = 3

\* C20: the cursor is never negative, and it is below the length of the history
\* whenever the history is not empty.
C20_CursorInRange ==
    /\ successFulCommsChannelIndex >= 0
    /\ Len(successfulCommsChannels) > 0 =>
            successFulCommsChannelIndex < Len(successfulCommsChannels)

\* the cursor at the last entry of a history of three, an append having followed
\* a rotation
C20_Witness ==
    /\ Len(successfulCommsChannels) = 3
    /\ successFulCommsChannelIndex = 2
    /\ ~tryingSwitchedContact
    /\ GetIdentifier(agentComms) = GetIdentifier(successfulCommsChannels[3])

\* the identifiers a history can hold
ServedIdentifiers == { GetIdentifier(c) : c \in ServedChannels }

\* C15: eventual coverage under failover.  Every rotation on a non-empty history
\* moves the cursor by exactly one position modulo the length of the history,
\* accepted or rejected; and when the loop keeps rotating, every channel that is in
\* the history is negotiated by a later rotation, also when channels are appended
\* to the history between the rotations.
C15_EventualCoverage ==
    /\ [][(RotateTracked /\ Len(successfulCommsChannels) > 0) =>
             successFulCommsChannelIndex' =
                (successFulCommsChannelIndex + 1) % Len(successfulCommsChannels)
         ]_vars
    /\ \A id \in ServedIdentifiers :
          (\E i \in 1..Len(successfulCommsChannels) :
                GetIdentifier(successfulCommsChannels[i]) = id)
             ~> (rotLog = <<id>>)

\* the third channel of the history, appended after rotations had begun, negotiated
\* by a rotation that was rejected, the cursor wrapped to the start
C15_Witness ==
    /\ Len(successfulCommsChannels) = 3
    /\ rotLog = <<GetIdentifier(successfulCommsChannels[3])>>
    /\ successFulCommsChannelIndex = 0
    /\ lastCall.called /\ ~lastCall.valid
    /\ GetIdentifier(agentComms) # GetIdentifier(successfulCommsChannels[3])

====
